---- MODULE Spec2Model ----
(***************************************************************************)
(* Model of src/src/App.tsx: the App component of a speech-transcription   *)
(* client.  The component keeps React state (recording, room, transcripts, *)
(* chapterTitles, progress), a Socket.IO connection whose event handlers   *)
(* fold server events into that state, and two async click handlers,       *)
(* startRecording and stopRecording, that talk to the backend over fetch   *)
(* and drive a RecordRTC recorder.                                         *)
(*                                                                         *)
(* JavaScript runs the component on one thread: a handler or the code      *)
(* between two awaits runs to completion, so each action below is one such *)
(* run.  The suspension points are `await initTranscription()` (line 120), *)
(* `await getUserMedia` (line 123), the fetch/json awaits of stopRecording *)
(* (lines 152-157) and the FileReader read of a chunk (line 140).  The two *)
(* awaits inside one try block (fetch, then resp.json()) change no state   *)
(* between them, so they are one suspension here, settled as a whole.      *)
(***************************************************************************)
EXTENDS Integers, Sequences, FiniteSets, TLC

VARIABLES
    room,           \* useState room (line 27): fixed at mount
    socket,         \* socketRef.current (lines 40-44, 90): [room, connected]
    recording,      \* useState recording (line 25)
    transcripts,    \* useState transcripts (line 30): sequence of segments
    chapterTitles,  \* useState chapterTitles (line 31)
    progress,       \* useState progress (line 32)
    starts,         \* the startRecording calls made so far, in call order
    stops,          \* the stopRecording calls made so far, in call order
    recorders,      \* the RecordRTC instances created so far (line 124)
    recordRTCRef,   \* recordRTCRef.current (line 36): index in recorders, 0 = null
    reads,          \* FileReader reads in progress (lines 132-140)
    emitted,        \* the audio_data messages emitted (line 135), in order
    inbox,          \* history: partial/final events received since the last start()
    lastProgress,   \* history: last transcription_progress value since the last start()
    lastTitles,     \* history: last chapter_titles text since the last start()
    wiped           \* history: the last start() found received events to reset

vars == <<room, socket, recording, transcripts, chapterTitles, progress, starts,
          stops, recorders, recordRTCRef, reads, emitted, inbox, lastProgress,
          lastTitles, wiped>>

uiVars == <<transcripts, chapterTitles, progress>>
histVars == <<inbox, lastProgress, lastTitles, wiped>>
captureVars == <<recorders, recordRTCRef, reads, emitted>>

(***************************************************************************)
(* Bounds of the model.                                                    *)
(***************************************************************************)
MaxStarts == 2      \* Spec: startRecording calls in one behaviour
MaxStops == 1       \* Spec: stopRecording calls in one behaviour
MaxBlobs == 1       \* Spec: blobs the recorders deliver in one behaviour
MaxTail == 1        \* Spec: partial/final events received in one session
MaxSessions == 1    \* SessionSpec, AggSpec: startRecording calls, and stopRecording calls
MaxChunks == 2      \* SessionSpec: blobs the recorders deliver in one behaviour
MaxLog == 2         \* SessionSpec, AggSpec: partial/final events received in one session

(***************************************************************************)
(* JavaScript values.                                                      *)
(***************************************************************************)
Undefined == "<undefined>"
NoEvent == [name |-> "<none>"]

\* data.key of an event payload: undefined when the key is absent
Get(data, key) == IF key \in DOMAIN data THEN data[key] ELSE Undefined

\* a || b on strings: b when a is undefined or the empty string
Or(a, b) == IF a = Undefined \/ a = "" THEN b ELSE a

\* Math.random().toString(36).substring(2, 10): a sample outcome
Rooms == {"k3x9q2ab"}

(***************************************************************************)
(* The inbound events the backend may emit.                                *)
(***************************************************************************)
TranscriptEvents ==
    { [name |-> "partial_result", data |-> [text |-> "hel"]],
      [name |-> "final_result", data |-> [text |-> "hello", speakerId |-> "A"]],
      [name |-> "transcribe_partial", data |-> [text |-> "hel", speakerId |-> ""]],
      [name |-> "transcribe_final", data |-> [text |-> "hello"]],
      [name |-> "transcribe_final",
       data |-> [transcript |-> "hello", text |-> "hel", speakerId |-> "A"]] }

ProgressValues == {10, 45, 30, 150}

ProgressEvents ==
    { [name |-> "transcription_progress", data |-> [progress |-> p]] : p \in ProgressValues }

TitlesEvents == { [name |-> "chapter_titles", data |-> [titles |-> "Intro"]] }

JoinEvents == { [name |-> "join_room", data |-> [room |-> r]] : r \in Rooms }

Events == TranscriptEvents \cup ProgressEvents \cup TitlesEvents \cup JoinEvents

\* the events of one short session: what the backend sends in SessionSpec
ScenarioEvents ==
    { [name |-> "partial_result", data |-> [text |-> "hel"]],
      [name |-> "final_result", data |-> [text |-> "hello", speakerId |-> "A"]],
      [name |-> "transcription_progress", data |-> [progress |-> 100]],
      [name |-> "chapter_titles", data |-> [titles |-> "Intro"]] } \cup JoinEvents

\* the events that carry no transcript: what the backend sends in FairSpec
StatusEvents ==
    { [name |-> "transcription_progress", data |-> [progress |-> 100]],
      [name |-> "chapter_titles", data |-> [titles |-> "Intro"]] } \cup JoinEvents

\* one event of each kind of effect: what the backend sends in Spec
CoreEvents ==
    { [name |-> "final_result", data |-> [text |-> "hello", speakerId |-> "A"]],
      [name |-> "transcription_progress", data |-> [progress |-> 100]],
      [name |-> "chapter_titles", data |-> [titles |-> "Intro"]] } \cup JoinEvents

\* outcomes of a control request: a response, a caught failure, no response ever
Outcomes == {"ok", "fail", "hang"}

(***************************************************************************)
(* The socket event handlers (lines 46-88): each gives the new value of    *)
(* the state slice it sets.                                                *)
(***************************************************************************)
PartialResult(prev, data) ==
    Append(prev, [text |-> Get(data, "text"),
                  speakerId |-> Or(Get(data, "speakerId"), "?")])

\* mutant: a final result replaces the segment before it instead of following it
FinalResult_Merges(prev, data) ==
    LET seg == [text |-> Get(data, "text"),
                speakerId |-> Or(Get(data, "speakerId"), "?")]
    IN  IF prev = <<>> THEN <<seg>> ELSE [prev EXCEPT ![Len(prev)] = seg]

FinalResult(prev, data) ==
    Append(prev, [text |-> Get(data, "text"),
                  speakerId |-> Or(Get(data, "speakerId"), "?")])

\* mutant: transcribe_partial keeps the speakerId as it came
TranscribePartial_KeepsSpeaker(prev, data) ==
    Append(prev, [text |-> Get(data, "text"),
                  speakerId |-> Get(data, "speakerId")])

TranscribePartial(prev, data) ==
    Append(prev, [text |-> Get(data, "text"),
                  speakerId |-> Or(Get(data, "speakerId"), "?")])

\* mutant: transcribe_final reads data.text only, as the other three handlers do
TranscribeFinal_TextOnly(prev, data) ==
    Append(prev, [text |-> Get(data, "text"),
                  speakerId |-> Or(Get(data, "speakerId"), "?")])

TranscribeFinal(prev, data) ==
    Append(prev, [text |-> Or(Get(data, "transcript"), Get(data, "text")),
                  speakerId |-> Or(Get(data, "speakerId"), "?")])

\* mutant: progress never goes down
TranscriptionProgress_Monotonic(data) ==
    IF data.progress > progress THEN data.progress ELSE progress

TranscriptionProgress(data) == data.progress

ChapterTitles(data) == data.titles

\* mutant: the chapter titles, which the backend sends last, also complete the
\* progress
Handle_TitlesComplete(e) ==
    /\ transcripts' =
         CASE e.name = "partial_result" -> PartialResult(transcripts, e.data)
           [] e.name = "final_result" -> FinalResult(transcripts, e.data)
           [] e.name = "transcribe_partial" -> TranscribePartial(transcripts, e.data)
           [] e.name = "transcribe_final" -> TranscribeFinal(transcripts, e.data)
           [] OTHER -> transcripts
    /\ progress' = CASE e.name = "transcription_progress" -> TranscriptionProgress(e.data)
                     [] e.name = "chapter_titles" -> 100
                     [] OTHER -> progress
    /\ chapterTitles' = IF e.name = "chapter_titles"
                        THEN ChapterTitles(e.data) ELSE chapterTitles

\* socket.on dispatch: the state after the handler registered for e.name has run
Handle(e) ==
    /\ transcripts' =
         CASE e.name = "partial_result" -> PartialResult(transcripts, e.data)
           [] e.name = "final_result" -> FinalResult(transcripts, e.data)
           [] e.name = "transcribe_partial" -> TranscribePartial(transcripts, e.data)
           [] e.name = "transcribe_final" -> TranscribeFinal(transcripts, e.data)
           [] OTHER -> transcripts
    /\ progress' = IF e.name = "transcription_progress"
                   THEN TranscriptionProgress(e.data) ELSE progress
    /\ chapterTitles' = IF e.name = "chapter_titles"
                        THEN ChapterTitles(e.data) ELSE chapterTitles

\* the four partial/final event names
IsTranscript(e) ==
    e.name \in {"partial_result", "final_result", "transcribe_partial", "transcribe_final"}

\* the history of what was received since the last start()
Record(e) ==
    /\ inbox' = IF IsTranscript(e) THEN Append(inbox, e) ELSE inbox
    /\ lastProgress' = IF e.name = "transcription_progress" THEN e ELSE lastProgress
    /\ lastTitles' = IF e.name = "chapter_titles" THEN e ELSE lastTitles
    /\ wiped' = wiped

(***************************************************************************)
(* Init: the component after its first render and its effect (lines 25-94).*)
(***************************************************************************)
Init ==
    /\ room \in Rooms
    /\ socket = [room |-> room, connected |-> TRUE]
    /\ recording = FALSE
    /\ transcripts = <<>>
    /\ chapterTitles = ""
    /\ progress = 0
    /\ starts = <<>>
    /\ stops = <<>>
    /\ recorders = <<>>
    /\ recordRTCRef = 0
    /\ reads = {}
    /\ emitted = <<>>
    /\ inbox = <<>>
    /\ lastProgress = NoEvent
    /\ lastTitles = NoEvent
    /\ wiped = FALSE

(***************************************************************************)
(* An inbound event arrives on the connected socket: its handler runs.     *)
(***************************************************************************)
Receive(events, maxLog) ==
    \E e \in events :
        /\ socket.connected
        /\ IsTranscript(e) => Len(inbox) < maxLog
        /\ Handle(e)
        /\ Record(e)
        /\ UNCHANGED <<room, socket, recording, starts, stops, captureVars>>

(***************************************************************************)
(* The buttons (lines 178-183): a click reaches the handler only while the *)
(* button is enabled.                                                      *)
(***************************************************************************)
StartDisabled == recording

StopDisabled == ~recording

\* mutant: the reset keeps the transcript log
ResetUIState_KeepsLog ==
    /\ transcripts' = transcripts
    /\ progress' = 0
    /\ chapterTitles' = ""

\* mutant: the reset leaves the progress as it is
ResetUIState_KeepsProgress ==
    /\ transcripts' = <<>>
    /\ progress' = progress
    /\ chapterTitles' = ""

\* lines 114-116 of startRecording
ResetUIState ==
    /\ transcripts' = <<>>
    /\ progress' = 0
    /\ chapterTitles' = ""

\* mutant: initTranscription() is not awaited: getUserMedia is called in the
\* same run, with the request still pending
StartRecording_NoAwait ==
    \E c \in Outcomes :
        /\ ResetUIState
        /\ recording' = TRUE
        /\ starts' = Append(starts, [pc |-> "mic", ctl |-> c, room |-> room])
        /\ inbox' = <<>>
        /\ lastProgress' = NoEvent
        /\ lastTitles' = NoEvent
        /\ wiped' = (inbox # <<>> /\ lastProgress # NoEvent /\ lastTitles # NoEvent)
        /\ UNCHANGED <<room, socket, stops, captureVars>>

\* mutant: startRecording issues its request without resetting the state
StartRecording_NoReset ==
    \E c \in Outcomes :
        /\ recording' = TRUE
        /\ starts' = Append(starts, [pc |-> "init", ctl |-> c, room |-> room])
        /\ inbox' = <<>>
        /\ lastProgress' = NoEvent
        /\ lastTitles' = NoEvent
        /\ wiped' = (inbox # <<>> /\ lastProgress # NoEvent /\ lastTitles # NoEvent)
        /\ UNCHANGED <<room, socket, uiVars, stops, captureVars>>

\* startRecording up to its first await (lines 112-120, 99-103): the reset,
\* setRecording(true) and the POST /start_transcription_ct with body {room}
StartRecording ==
    \E c \in Outcomes :
        /\ ResetUIState
        /\ recording' = TRUE
        /\ starts' = Append(starts, [pc |-> "init", ctl |-> c, room |-> room])
        /\ inbox' = <<>>
        /\ lastProgress' = NoEvent
        /\ lastTitles' = NoEvent
        /\ wiped' = (inbox # <<>> /\ lastProgress # NoEvent /\ lastTitles # NoEvent)
        /\ UNCHANGED <<room, socket, stops, captureVars>>

StartClick(maxStarts) ==
    /\ Len(starts) < maxStarts
    /\ socket.connected
    /\ ~StartDisabled
    /\ StartRecording

\* await initTranscription() returns (lines 104-108, 120-123): the request got
\* its response, or failed and the failure was caught and logged; then
\* getUserMedia is called
InitSettle(i) ==
    /\ starts[i].pc = "init"
    /\ starts[i].ctl \in {"ok", "fail"}
    /\ starts' = [starts EXCEPT ![i].pc = "mic"]
    /\ UNCHANGED <<room, socket, recording, uiVars, stops, captureVars, histVars>>

\* getUserMedia resolves (lines 123-143): the recorder is created, stored in
\* the ref and started
MicGrant(i) ==
    /\ starts[i].pc = "mic"
    /\ recorders' = Append(recorders, [state |-> "recording", owner |-> i, produced |-> 0])
    /\ recordRTCRef' = Len(recorders) + 1
    /\ starts' = [starts EXCEPT ![i].pc = "done", ![i].ctl = "-"]
    /\ UNCHANGED <<room, socket, recording, uiVars, stops, reads, emitted, histVars>>

\* getUserMedia rejects (line 123): nothing catches it, startRecording's promise
\* rejects and the rest of the function does not run
MicDeny(i) ==
    /\ starts[i].pc = "mic"
    /\ starts' = [starts EXCEPT ![i].pc = "denied", ![i].ctl = "-"]
    /\ UNCHANGED <<room, socket, recording, uiVars, stops, captureVars, histVars>>

\* mutant: stopRecording clears the transcript log, as startRecording does
StopRecording_ClearsLog ==
    /\ recording' = FALSE
    /\ transcripts' = <<>>
    /\ stops' = Append(stops, [pc |-> "await", room |-> room,
                               target |-> IF recordRTCRef # 0
                                             /\ recorders[recordRTCRef].state = "recording"
                                          THEN recordRTCRef ELSE 0])
    /\ UNCHANGED <<room, socket, progress, chapterTitles, starts, captureVars, histVars>>

\* stopRecording up to its first await (lines 147-156): setRecording(false) and
\* the POST /stop_transcription with body {room}
StopRecording ==
    /\ recording' = FALSE
    /\ stops' = Append(stops, [pc |-> "await", room |-> room,
                               target |-> IF recordRTCRef # 0
                                             /\ recorders[recordRTCRef].state = "recording"
                                          THEN recordRTCRef ELSE 0])
    /\ UNCHANGED <<room, socket, uiVars, starts, captureVars, histVars>>

StopClick(maxStops) ==
    /\ Len(stops) < maxStops
    /\ socket.connected
    /\ ~StopDisabled
    /\ StopRecording

\* startRecording and stopRecording called as the operations they are, whatever
\* the state: neither function tests `recording` or anything else before it
\* acts (lines 112-117, 147-156)
StartCall(maxStarts) ==
    /\ Len(starts) < maxStarts
    /\ socket.connected
    /\ StartRecording

StopCall(maxStops) ==
    /\ Len(stops) < maxStops
    /\ socket.connected
    /\ StopRecording

\* recordRTCRef.current.stopRecording(...) (lines 164-169): the recorder the ref
\* holds now is stopped; stopping a stopped recorder changes nothing
StopCapture ==
    IF recordRTCRef # 0
    THEN [recorders EXCEPT ![recordRTCRef].state = "stopped"]
    ELSE recorders

\* the awaits of stopRecording return (lines 157-169): the response was logged,
\* or the failure was caught and logged (both leave the same state); then the
\* capture is stopped.  A request that gets no response never takes this step
StopSettle(j) ==
    /\ stops[j].pc = "await"
    /\ recorders' = StopCapture
    /\ stops' = [stops EXCEPT ![j].pc = "done"]
    /\ UNCHANGED <<room, socket, recording, uiVars, starts, recordRTCRef, reads,
                   emitted, histVars>>

\* a running recorder delivers the blob of one time slice (lines 130-132, 140):
\* ondataavailable creates a FileReader and starts reading the blob
Capture(k, maxChunks) ==
    /\ recorders[k].state = "recording"
    /\ Len(emitted) + Cardinality(reads) < maxChunks
    /\ recorders' = [recorders EXCEPT ![k].produced = @ + 1]
    /\ reads' = reads \cup {[rec |-> k, seq |-> recorders[k].produced + 1]}
    /\ UNCHANGED <<room, socket, recording, uiVars, starts, stops, recordRTCRef,
                   emitted, histVars>>

\* mutant: the audio_data payload carries no room
AudioData_NoRoom(c) == [room |-> Undefined, rec |-> c.rec, seq |-> c.seq]

\* the audio_data payload of a chunk (lines 135-138)
AudioData(c) == [room |-> room, rec |-> c.rec, seq |-> c.seq]

\* a read completes (lines 133-139): onloadend emits the chunk as audio_data
ReadDone(c) ==
    /\ c \in reads
    /\ reads' = reads \ {c}
    /\ emitted' = Append(emitted, AudioData(c))
    /\ UNCHANGED <<room, socket, recording, uiVars, starts, stops, recorders,
                   recordRTCRef, histVars>>

\* the component unmounts: the effect's cleanup disconnects the socket
\* (lines 91-93); the buttons and the handlers are gone, the pending
\* continuations and the recorders are not
Unmount ==
    /\ socket.connected
    /\ socket' = [socket EXCEPT !.connected = FALSE]
    /\ UNCHANGED <<room, recording, uiVars, starts, stops, captureVars, histVars>>

\* Spec: two sessions in any interleaving; the backend sends CoreEvents
Next ==
    \/ Receive(CoreEvents, MaxTail)
    \/ StartClick(MaxStarts)
    \/ \E i \in 1..Len(starts) : InitSettle(i)
    \/ \E i \in 1..Len(starts) : MicGrant(i)
    \/ \E i \in 1..Len(starts) : MicDeny(i)
    \/ StopClick(MaxStops)
    \/ \E j \in 1..Len(stops) : StopSettle(j)
    \/ \E k \in 1..Len(recorders) : Capture(k, MaxBlobs)
    \/ \E c \in reads : ReadDone(c)
    \/ Unmount

Spec == Init /\ [][Next]_vars

\* SessionSpec: one session of the mounted component; the backend sends
\* ScenarioEvents
SessionNext ==
    \/ Receive(ScenarioEvents, MaxLog)
    \/ StartClick(MaxSessions)
    \/ \E i \in 1..Len(starts) : InitSettle(i)
    \/ \E i \in 1..Len(starts) : MicGrant(i)
    \/ \E i \in 1..Len(starts) : MicDeny(i)
    \/ StopClick(MaxSessions)
    \/ \E j \in 1..Len(stops) : StopSettle(j)
    \/ \E k \in 1..Len(recorders) : Capture(k, MaxChunks)
    \/ \E c \in reads : ReadDone(c)

SessionSpec == Init /\ [][SessionNext]_vars

\* AggSpec: the socket handlers of the mounted component on any of Events,
\* around one session; the
\* recorder's blobs, which touch none of the aggregated state, are left to
\* Spec and SessionSpec
AggNext ==
    \/ Receive(Events, MaxLog)
    \/ StartClick(MaxSessions)
    \/ \E i \in 1..Len(starts) : InitSettle(i)
    \/ \E i \in 1..Len(starts) : MicGrant(i)
    \/ \E i \in 1..Len(starts) : MicDeny(i)
    \/ StopClick(MaxSessions)
    \/ \E j \in 1..Len(stops) : StopSettle(j)

AggSpec == Init /\ [][AggNext]_vars

\* FairSpec: one session where a control request of startRecording that gets
\* a response or fails (ctl "ok", "fail") does settle: the event loop runs the
\* continuation of a settled promise.  A request that gets no response (ctl
\* "hang") has no step to take: fetch is called without a timeout or an abort
\* signal (lines 99-103).  Nothing is assumed of getUserMedia, of the stop
\* request or of the reads.  The backend sends StatusEvents
FairNext ==
    \/ Receive(StatusEvents, MaxLog)
    \/ StartClick(MaxSessions)
    \/ \E i \in 1..Len(starts) : InitSettle(i)
    \/ \E i \in 1..Len(starts) : MicGrant(i)
    \/ \E i \in 1..Len(starts) : MicDeny(i)
    \/ StopClick(MaxSessions)
    \/ \E j \in 1..Len(stops) : StopSettle(j)
    \/ \E k \in 1..Len(recorders) : Capture(k, MaxChunks)
    \/ \E c \in reads : ReadDone(c)

Fairness ==
    \A i \in 1..MaxSessions :
        WF_vars(i <= Len(starts) /\ starts[i].ctl \in {"ok", "fail"} /\ InitSettle(i))

FairSpec == Init /\ [][FairNext]_vars /\ Fairness

\* CallSpec: startRecording and stopRecording called in any state, without the
\* buttons; the backend sends StatusEvents
CallNext ==
    \/ Receive(StatusEvents, MaxTail)
    \/ StartCall(MaxStarts)
    \/ \E i \in 1..Len(starts) : InitSettle(i)
    \/ \E i \in 1..Len(starts) : MicGrant(i)
    \/ \E i \in 1..Len(starts) : MicDeny(i)
    \/ StopCall(MaxStops)
    \/ \E j \in 1..Len(stops) : StopSettle(j)
    \/ \E k \in 1..Len(recorders) : Capture(k, MaxBlobs)
    \/ \E c \in reads : ReadDone(c)

CallSpec == Init /\ [][CallNext]_vars

(***************************************************************************)
(* What the specification says of an inbound event, stated from its words.  *)
(***************************************************************************)
\* nothing was received since the last start()
NothingReceived == inbox = <<>> /\ lastProgress = NoEvent /\ lastTitles = NoEvent

\* the aggregated state is the empty one
AggregateEmpty == transcripts = <<>> /\ progress = 0 /\ chapterTitles = ""

\* the last startRecording call, if any
LastStart == starts[Len(starts)]

(***************************************************************************)
(* C1 (AggSpec).  Reset invariant: whatever was received before a start(),  *)
(* after that start() was invoked, and up to its completion and beyond, as  *)
(* long as nothing else has been received, the transcript log is empty,     *)
(* progress is 0 and chapter titles is the empty string.                    *)
(***************************************************************************)
C1_ResetInvariant == (starts # <<>> /\ NothingReceived) => AggregateEmpty

\* a start() that found partial/final, progress and titles events to reset has
\* completed, and the state is the empty one
C1_Witness ==
    /\ starts # <<>>
    /\ LastStart.pc = "done"
    /\ wiped
    /\ NothingReceived
    /\ AggregateEmpty

(***************************************************************************)
(* C2 (AggSpec).  Append-only log: in every step that is not a start(), a   *)
(* received partial/final event adds exactly one segment at the end of the  *)
(* log and leaves the earlier segments as they were, the log then holding as*)
(* many segments as events were received; any other step leaves the log     *)
(* alone.                                                                   *)
(***************************************************************************)
C2_AppendOnly ==
    [][ (starts' = starts) =>
          IF inbox' # inbox
          THEN /\ Len(transcripts') = Len(transcripts) + 1
               /\ SubSeq(transcripts', 1, Len(transcripts)) = transcripts
               /\ Len(transcripts') = Len(inbox')
          ELSE transcripts' = transcripts ]_vars

\* a partial and then a final result were received: two segments, in that order
C2_Witness ==
    /\ Len(inbox) = 2
    /\ inbox[1].name = "partial_result"
    /\ inbox[2].name = "final_result"
    /\ Len(transcripts) = 2
    /\ transcripts[1].text = "hel"
    /\ transcripts[2].text = "hello"

(***************************************************************************)
(* C3 (CallSpec).  Idempotent stop: a stop() called while the session is    *)
(* Idle (recording false) issues no stop control request.                   *)
(***************************************************************************)
C3_IdleStopIgnored == [][ (~recording) => (Len(stops') = Len(stops)) ]_vars

(***************************************************************************)
(* C4 (Spec).  Permission denied: when getUserMedia fails in a start(), the *)
(* recording state is false when that start() ends, and no recorder (hence  *)
(* no audio_data chunk) exists for that session.                            *)
(***************************************************************************)
C4_PermissionDenied ==
    [][ \A i \in 1..Len(starts) :
          (starts[i].pc = "mic" /\ starts'[i].pc = "denied") =>
              /\ recording' = FALSE
              /\ \A k \in 1..Len(recorders') : recorders'[k].owner # i ]_vars

(***************************************************************************)
(* C5 (FairSpec).  Capture proceeds whatever becomes of POST                *)
(* /start_transcription_ct (a response, a failure, no response): a start()  *)
(* that has issued the request eventually leaves it behind and goes on to   *)
(* acquire the microphone.                                                  *)
(***************************************************************************)
C5_CaptureWhateverTheRequest ==
    \A i \in 1..MaxSessions :
        (i <= Len(starts) /\ starts[i].pc = "init")
            ~> (i <= Len(starts) /\ starts[i].pc \in {"mic", "done", "denied"})

(***************************************************************************)
(* C6 (Spec).  Stop ends capture: when a stop() that was invoked while the  *)
(* recorder of the session was running has completed (its request answered *)
(* or failed), that recorder is stopped, so that it delivers no chunk after.*)
(***************************************************************************)
C6_StopEndsCapture ==
    \A j \in 1..Len(stops) :
        (stops[j].pc = "done" /\ stops[j].target # 0)
            => recorders[stops[j].target].state = "stopped"

(***************************************************************************)
(* C7 (Spec).  stop() leaves the aggregated state and the channel alone: no *)
(* step of a stopRecording call changes the transcript log, the progress,   *)
(* the chapter titles or the socket; and an event received while Idle after *)
(* a stop() is folded as in a session: a partial/final event adds one       *)
(* segment, a progress event sets the progress, a titles event the titles.  *)
(***************************************************************************)
C7_StopLeavesStateAndChannel ==
    [][ /\ (stops' # stops) => UNCHANGED <<transcripts, progress, chapterTitles, socket>>
        /\ (stops # <<>> /\ ~recording /\ starts' = starts /\ stops' = stops) =>
             /\ inbox' # inbox =>
                  /\ Len(transcripts') = Len(transcripts) + 1
                  /\ transcripts'[Len(transcripts')].text = inbox'[Len(inbox')].data.text
             /\ lastProgress' # lastProgress => progress' = lastProgress'.data.progress
             /\ lastTitles' # lastTitles => chapterTitles' = lastTitles'.data.titles ]_vars

\* a stop() has completed, the session is Idle, the socket is connected and
\* the aggregated state still holds what was received
C7_Witness ==
    /\ stops # <<>>
    /\ stops[1].pc = "done"
    /\ ~recording
    /\ socket.connected
    /\ transcripts # <<>>
    /\ progress = 100
    /\ chapterTitles = "Intro"

(***************************************************************************)
(* C8 (SessionSpec).  The happy path has run: one start() that began        *)
(* capture, two chunks delivered and read, partial_result{text:"hel"} then  *)
(* final_result{text:"hello",speakerId:"A"}, transcription_progress{100},   *)
(* chapter_titles{"Intro"}, and one stop() that completed.                  *)
(***************************************************************************)
HappyPathRun ==
    /\ Len(starts) = 1
    /\ starts[1].pc = "done"
    /\ Len(stops) = 1
    /\ stops[1].pc = "done"
    /\ Len(recorders) = 1
    /\ recorders[1].produced = 2
    /\ reads = {}
    /\ inbox = << [name |-> "partial_result", data |-> [text |-> "hel"]],
                  [name |-> "final_result", data |-> [text |-> "hello", speakerId |-> "A"]] >>
    /\ lastProgress = [name |-> "transcription_progress", data |-> [progress |-> 100]]
    /\ lastTitles = [name |-> "chapter_titles", data |-> [titles |-> "Intro"]]

\* C8 (SessionSpec): the happy path ends with the log [Partial("hel","?"),
\* Final("hello","A")], each segment recording its text, speaker and finality,
\* progress 100, chapter titles "Intro" and exactly two audio_data messages.
C8_HappyPathWithFinality ==
    HappyPathRun =>
        /\ transcripts = << [text |-> "hel", speakerId |-> "?", finality |-> "Partial"],
                            [text |-> "hello", speakerId |-> "A", finality |-> "Final"] >>
        /\ progress = 100
        /\ chapterTitles = "Intro"
        /\ Len(emitted) = 2

(***************************************************************************)
(* C9 (AggSpec).  Fallback text: the segment of a transcribe_final event    *)
(* has the text of data.text when data.transcript is absent and data.text   *)
(* present, and the text of data.transcript when that is present and not    *)
(* empty.                                                                   *)
(***************************************************************************)
C9_FallbackText ==
    \A n \in 1..Len(inbox) :
        inbox[n].name = "transcribe_final" =>
            LET d == inbox[n].data
            IN  /\ n <= Len(transcripts)
                /\ ("transcript" \notin DOMAIN d /\ "text" \in DOMAIN d)
                      => transcripts[n].text = d.text
                /\ ("transcript" \in DOMAIN d /\ d.transcript # "")
                      => transcripts[n].text = d.transcript

\* one transcribe_final without data.transcript and one with it were received
C9_Witness ==
    /\ Len(inbox) = 2
    /\ Len(transcripts) = 2
    /\ inbox[1] = [name |-> "transcribe_final", data |-> [text |-> "hello"]]
    /\ transcripts[1].text = "hello"
    /\ inbox[2] = [name |-> "transcribe_final",
                   data |-> [transcript |-> "hello", text |-> "hel", speakerId |-> "A"]]
    /\ transcripts[2].text = "hello"

(***************************************************************************)
(* C10 (AggSpec).  Progress overwrite: once a transcription_progress event  *)
(* was received since the last start(), the progress is the value of the    *)
(* last one received, whatever the values before it: neither clamped to     *)
(* [0, 100] nor kept from going down.                                       *)
(***************************************************************************)
C10_ProgressOverwrite ==
    lastProgress # NoEvent => progress = lastProgress.data.progress

\* the last progress event carried 150: the progress is 150, not 100
C10_Witness ==
    /\ lastProgress = [name |-> "transcription_progress", data |-> [progress |-> 150]]
    /\ progress = 150

(***************************************************************************)
(* What the specification says of the capture, stated from its words.       *)
(***************************************************************************)
\* the recorders that are capturing
Running == { k \in 1..Len(recorders) : recorders[k].state = "recording" }

\* no startRecording or stopRecording call is suspended on an await
NoCallInProgress ==
    /\ \A i \in 1..Len(starts) : starts[i].pc \in {"done", "denied"}
    /\ \A j \in 1..Len(stops) : stops[j].pc = "done"

(***************************************************************************)
(* C11 (Spec).  Exclusive microphone ownership: under every interleaving of *)
(* start() and stop(), at most one recorder is capturing at any time.       *)
(***************************************************************************)
C11_ExclusiveMicrophone == Cardinality(Running) <= 1

(***************************************************************************)
(* C12 (Spec).  No capture outlives its session: whenever recording is      *)
(* false and no start() or stop() call is in progress, no recorder is       *)
(* capturing (so that no further audio_data chunk is produced).             *)
(***************************************************************************)
C12_NoCaptureOutlivesSession ==
    (~recording /\ NoCallInProgress) => Running = {}

(***************************************************************************)
(* C13 (Spec).  stop() effect ordering: recording becomes false only once   *)
(* the capture has been stopped, and no audio_data chunk is emitted while   *)
(* recording is false.                                                      *)
(***************************************************************************)
C13_IdleAfterCaptureStopped ==
    [][ /\ (recording /\ ~recording') => Running' = {}
        /\ (emitted' # emitted) => recording ]_vars

(***************************************************************************)
(* C14 (Spec).  Reset precedes streaming: the run of a start() that issues  *)
(* its control request has reset the aggregated state by the time it        *)
(* suspends on that request, and at that point the session has no recorder  *)
(* and has emitted no audio_data chunk: the reset comes before the first    *)
(* chunk of the session.                                                    *)
(***************************************************************************)
C14_ResetPrecedesStreaming ==
    [][ Len(starts') > Len(starts) =>
          /\ transcripts' = <<>> /\ progress' = 0 /\ chapterTitles' = ""
          /\ starts'[Len(starts')].pc = "init"
          /\ \A k \in 1..Len(recorders') : recorders'[k].owner # Len(starts')
          /\ reads' = reads /\ emitted' = emitted ]_vars

\* the second start() found a segment, a progress and titles to reset, and a
\* chunk of its session was emitted after; the segment it reset is gone
C14_Witness ==
    /\ Len(starts) = 2
    /\ wiped
    /\ \E m \in 1..Len(emitted) : recorders[emitted[m].rec].owner = 2
    /\ transcripts = <<>>

(***************************************************************************)
(* C15 (Spec).  Backend is initialised before audio: a recorder is created  *)
(* for a start() only once that start()'s POST /start_transcription_ct has  *)
(* completed (a response, or a failure that was caught), a blob is delivered*)
(* only by a recorder, and an audio_data chunk is emitted only for a        *)
(* recorder whose start() has got past that request.                        *)
(***************************************************************************)
C15_BackendInitialisedFirst ==
    [][ /\ Len(recorders') > Len(recorders) =>
             LET i == recorders'[Len(recorders')].owner
             IN  starts[i].pc = "mic" /\ starts[i].ctl \in {"ok", "fail"}
        /\ \A c \in reads' \ reads :
             c.rec \in 1..Len(recorders) /\ starts[recorders[c.rec].owner].pc = "done"
        /\ emitted' # emitted =>
             LET a == emitted'[Len(emitted')]
             IN  a.rec \in 1..Len(recorders) /\ starts[recorders[a.rec].owner].pc = "done" ]_vars

\* a chunk of the first session was emitted, and the second start(), whose
\* request has no response, has no recorder
C15_Witness ==
    /\ Len(starts) = 2
    /\ starts[2].pc = "init"
    /\ starts[2].ctl = "hang"
    /\ \A k \in 1..Len(recorders) : recorders[k].owner = 1
    /\ \E m \in 1..Len(emitted) : recorders[emitted[m].rec].owner = 1

(***************************************************************************)
(* C16 (SessionSpec).  Chunk emission order equals capture order: of two    *)
(* chunks delivered by one recorder, the audio_data of the earlier one is   *)
(* emitted before that of the later one.                                    *)
(***************************************************************************)
C16_EmissionInCaptureOrder ==
    \A m, n \in 1..Len(emitted) :
        (m < n /\ emitted[m].rec = emitted[n].rec) => emitted[m].seq < emitted[n].seq

(***************************************************************************)
(* C17 (AggSpec).  Each inbound event mutates only its own state slice: a   *)
(* step that receives an event (no start() or stop() call moves) changes    *)
(* only the transcript log when the event is partial/final, only the        *)
(* progress when it is transcription_progress, only the chapter titles when *)
(* it is chapter_titles, nothing when it is join_room; and it leaves the    *)
(* recording state, the recorders and the socket as they were.              *)
(***************************************************************************)
C17_OwnSliceOnly ==
    [][ (starts' = starts /\ stops' = stops) =>
          /\ inbox' # inbox =>
               transcripts' # transcripts /\ UNCHANGED <<progress, chapterTitles>>
          /\ lastProgress' # lastProgress => UNCHANGED <<transcripts, chapterTitles>>
          /\ lastTitles' # lastTitles => UNCHANGED <<transcripts, progress>>
          /\ UNCHANGED histVars => UNCHANGED uiVars
          /\ UNCHANGED <<recording, recorders, recordRTCRef, reads, emitted, socket, room>> ]_vars

\* two partial/final events, a progress event and a titles event were received
\* while recording with a recorder capturing: each is in its slice, and the
\* recorder still captures
C17_Witness ==
    /\ recording
    /\ Running # {}
    /\ Len(inbox) = 2
    /\ Len(transcripts) = 2
    /\ lastProgress = [name |-> "transcription_progress", data |-> [progress |-> 45]]
    /\ progress = 45
    /\ lastTitles # NoEvent
    /\ chapterTitles = "Intro"

(***************************************************************************)
(* The segment the specification gives a partial/final event: its text (the *)
(* transcript of a transcribe_final when it has one) and its speaker, "?"   *)
(* when the event names none.                                               *)
(***************************************************************************)
SegmentOf(e) ==
    [text |-> IF e.name = "transcribe_final" /\ "transcript" \in DOMAIN e.data
                 /\ e.data.transcript # ""
              THEN e.data.transcript ELSE e.data.text,
     speakerId |-> IF "speakerId" \in DOMAIN e.data /\ e.data.speakerId # ""
                   THEN e.data.speakerId ELSE "?"]

(***************************************************************************)
(* C18 (AggSpec).  No cross-session bleed in the log: at every point after  *)
(* a start() invocation, the transcript log holds exactly the segments of   *)
(* the partial/final events received since the last start() invocation, in  *)
(* arrival order, and none of an event received before it.                  *)
(***************************************************************************)
C18_NoCrossSessionBleed ==
    starts # <<>> =>
        transcripts = [n \in 1..Len(inbox) |-> SegmentOf(inbox[n])]

\* partial/final, progress and titles events were received before the start(),
\* which reset them, and two partial/final events after it: the log holds
\* those two, in arrival order
C18_Witness ==
    /\ starts # <<>>
    /\ wiped
    /\ Len(inbox) = 2
    /\ inbox[1].name = "transcribe_partial"
    /\ inbox[2].name = "final_result"
    /\ transcripts = << [text |-> "hel", speakerId |-> "?"],
                        [text |-> "hello", speakerId |-> "A"] >>

(***************************************************************************)
(* C19 (Spec).  Room tagging: the room identifier never changes, and the    *)
(* socket connection, every start control request, every stop control       *)
(* request and every audio_data message carry it, across the start()/stop() *)
(* cycles.                                                                  *)
(***************************************************************************)
C19_RoomTagging ==
    /\ [][room' = room /\ socket'.room = socket.room]_vars
    /\ [](/\ socket.room = room
          /\ \A i \in 1..Len(starts) : starts[i].room = room
          /\ \A j \in 1..Len(stops) : stops[j].room = room
          /\ \A m \in 1..Len(emitted) : emitted[m].room = room)

\* two start() calls, a stop() call between them and an audio_data message:
\* all carry the room of the connection
C19_Witness ==
    /\ Len(starts) = 2
    /\ Len(stops) = 1
    /\ emitted # <<>>
    /\ {starts[1].room, starts[2].room, stops[1].room, emitted[1].room} = {socket.room}

(***************************************************************************)
(* C20 (AggSpec).  Malformed events tolerated: every partial/final event    *)
(* received has exactly one segment in the log; the speaker of that segment *)
(* is "?" when the event has no speakerId or an empty one, and the event's  *)
(* speakerId, unchanged, when it has one.                                   *)
(***************************************************************************)
C20_SpeakerFallback ==
    /\ Len(transcripts) = Len(inbox)
    /\ \A n \in 1..Len(inbox) :
         LET d == inbox[n].data
         IN  IF "speakerId" \notin DOMAIN d \/ d.speakerId = ""
             THEN transcripts[n].speakerId = "?"
             ELSE transcripts[n].speakerId = d.speakerId

\* an event without speakerId and one with speakerId "A" were received
C20_Witness ==
    /\ Len(inbox) = 2
    /\ inbox[1] = [name |-> "partial_result", data |-> [text |-> "hel"]]
    /\ inbox[2].name = "transcribe_final"
    /\ "speakerId" \in DOMAIN inbox[2].data
    /\ transcripts[1].speakerId = "?"
    /\ transcripts[2].speakerId = "A"

====
